---- MODULE Spec2Model ----
(***************************************************************************)
(* Model of the storage and concurrency core of the BusTub-derived engine: *)
(*   - LockManager   (src/src/concurrency/lock_manager.cpp)                *)
(*   - BufferPoolManagerInstance and LRUReplacer (src/src/buffer/...)      *)
(* Each transaction is one thread.  The lock manager's latch_ makes the    *)
(* code between two blocking points one atomic step; the checks a lock     *)
(* call makes before it takes latch_ are steps of their own, because       *)
(* another thread may wound the transaction between them.                  *)
(***************************************************************************)
EXTENDS Integers, Sequences, FiniteSets, TLC

\* ------------------------------------------------------------------ bounds
NumTxns == 3
NumRids == 2
MaxQueue == 4
PoolSize == 2
MaxPages == 3
MaxPin == 2

NumKeys == 4
NumValues == 2
BucketSize == 2
MaxDepth == 2
MaxReaders == 3
NumThreads == 2

RECURSIVE Pow2(_)
Pow2(n) == IF n <= 0 THEN 1 ELSE 2 * Pow2(n - 1)

Txns == 0 .. (NumTxns - 1)
Rids == 0 .. (NumRids - 1)

INVALID_TXN_ID == -1
INVALID_PAGE_ID == -1

Frames == 0 .. (PoolSize - 1)
PageIds == 0 .. (MaxPages - 1)
\* page contents: 0 is zeroed memory, 1 is what a caller wrote
Bytes == {0, 1}

IsolationLevels == {"READ_UNCOMMITTED", "READ_COMMITTED", "REPEATABLE_READ"}
LockOps == {"LockShared", "LockExclusive", "LockUpgrade"}

VARIABLES
    lock_table,          \* rid -> [request_queue_, upgrading_]
    txn_state,           \* txn -> GROWING / SHRINKING / ABORTED
    isolation,           \* txn -> isolation level (fixed at Begin)
    shared_lock_set,     \* txn -> set of rids
    exclusive_lock_set,  \* txn -> set of rids
    pc,                  \* txn -> position of the txn's thread in its call
    op,                  \* txn -> the lock call its thread is inside ("none" when idle)
    arg,                 \* txn -> rid argument of that call
    notified,            \* txn -> a notify_all reached it while in cv_.wait
    ret,                 \* the call that returned in the latest step: [txn, op, rid, val]
    wounds               \* the wounds made by the latest step

lmvars == <<lock_table, txn_state, isolation, shared_lock_set, exclusive_lock_set,
            pc, op, arg, notified, ret, wounds>>

VARIABLES
    pages_,              \* frame -> [page_id_, pin_count_, is_dirty_, data_]
    page_table_,         \* resident page id -> frame
    free_list_,          \* sequence of free frames
    lru_list_,           \* the replacer's list, most recently unpinned first
    lru_hash_,           \* the replacer's index: the frames in lru_list_
    next_page_id_,       \* the allocation counter
    disk,                \* DiskManager: page id -> bytes on disk
    bp_ret               \* the buffer-pool call of the latest step and its result

bpvars == <<pages_, page_table_, free_list_, lru_list_, lru_hash_, next_page_id_,
            disk, bp_ret>>

VARIABLES
    entered              \* observer: the evictable frames, earliest entry first

rpvars == <<entered>>

VARIABLES
    directory_page_id_,  \* page id of the directory page, INVALID_PAGE_ID before creation
    directory,           \* the directory page: global_depth_, bucket_page_ids_, local_depths_
    buckets,             \* bucket page id -> the bucket page's slot array
    table_latch_,        \* number of readers holding the table latch
    ht_pc,               \* thread -> "idle" or the call it is about to enter
    ht_arg,              \* thread -> [key, value, index, ok] of its call
    ht_ret,              \* the hash-index step of the latest step and its result
    ht_pool,             \* the buffer pool calls made by the latest hash-index step
    ht_pins,             \* page id -> pins the hash table holds on it (pages with none left out)
    index_set            \* observer: the pairs put in by Insert and not taken out by Remove

htvars == <<directory_page_id_, directory, buckets, table_latch_, ht_pc, ht_arg,
            ht_ret, ht_pool, ht_pins, index_set>>

vars == <<lmvars, bpvars, rpvars, htvars>>

\* ------------------------------------------------------------ lock manager
LockRequest(t, mode) == [txn_id_ |-> t, lock_mode_ |-> mode, granted_ |-> FALSE]

HasRequest(q, t) == \E i \in 1 .. Len(q) : q[i].txn_id_ = t

\* index of the first request of t in q
FirstOf(q, t) == CHOOSE i \in 1 .. Len(q) :
                    /\ q[i].txn_id_ = t
                    /\ \A j \in 1 .. (i - 1) : q[j].txn_id_ # t

CheckAbort(t) == txn_state[t] = "ABORTED"

\* The predecessors NeedWait's loop visits: begin() up to the first request of t.
Predecessors(q, t) == 1 .. (FirstOf(q, t) - 1)

\* NeedWait: self is request_queue_.back(), whoever appended it.
NeedWaitSelf(q) == q[Len(q)]

NeedWaitFast(q, t) ==
    IF NeedWaitSelf(q).lock_mode_ = "SHARED"
    THEN q[1].txn_id_ = t \/ q[1].lock_mode_ = "SHARED"
    ELSE q[1].txn_id_ = t

\* the requests (by index) the wound-wait loop aborts
NeedWaitWounds(q, t) ==
    IF NeedWaitFast(q, t) THEN {}
    ELSE { i \in Predecessors(q, t) :
             /\ q[i].txn_id_ > t
             /\ \/ (NeedWaitSelf(q).lock_mode_ = "SHARED" /\ q[i].lock_mode_ = "EXCLUSIVE")
                \/ NeedWaitSelf(q).lock_mode_ = "EXCLUSIVE" }

\* NeedWait without the age test on the predecessor
NeedWait_AnyAge(q, t) ==
    IF NeedWaitFast(q, t) THEN FALSE
    ELSE \E i \in Predecessors(q, t) :
            \/ NeedWaitSelf(q).lock_mode_ = "EXCLUSIVE"
            \/ q[i].lock_mode_ = "EXCLUSIVE"

NeedWait(q, t) ==
    IF NeedWaitFast(q, t) THEN FALSE
    ELSE \E i \in Predecessors(q, t) :
            /\ ~ (q[i].txn_id_ > t)
            /\ \/ NeedWaitSelf(q).lock_mode_ = "EXCLUSIVE"
               \/ q[i].lock_mode_ = "EXCLUSIVE"

NeedWaitUpdateWounds(q, t) ==
    { i \in Predecessors(q, t) : q[i].txn_id_ > t }

NeedWaitUpdate(q, t) ==
    \E i \in Predecessors(q, t) : ~ (q[i].txn_id_ > t)

Queue(r) == lock_table[r].request_queue_

\* observation of the call that returns in a step
NoReturn == [txn |-> -1, op |-> "none", rid |-> 0, val |-> "none"]
Return(t, o, r, v) == [txn |-> t, op |-> o, rid |-> r, val |-> v]

\* cv_.notify_all on rid r's queue: reaches the threads inside cv_.wait on it
NotifyAll(nf, r) ==
    [u \in Txns |-> IF pc[u] = "wait" /\ arg[u] = r THEN TRUE ELSE nf[u]]

GrantAll(q, t) ==
    [i \in 1 .. Len(q) |->
        IF q[i].txn_id_ = t THEN [q[i] EXCEPT !.granted_ = TRUE] ELSE q[i]]

RemoveAt(q, i) == SubSeq(q, 1, i - 1) \o SubSeq(q, i + 1, Len(q))

WoundIdx(q, t, o) ==
    IF o = "LockUpgrade" THEN NeedWaitUpdateWounds(q, t) ELSE NeedWaitWounds(q, t)

MustWait(q, t, o) ==
    IF o = "LockUpgrade" THEN NeedWaitUpdate(q, t) ELSE NeedWait(q, t)

\* the transactions whose state the loop changes to ABORTED
Victims(q, t, o) ==
    { v \in Txns : /\ txn_state[v] # "ABORTED"
                   /\ \E i \in WoundIdx(q, t, o) : q[i].txn_id_ = v }

WoundLog(q, t, o, r) ==
    { [by |-> t, victim |-> q[i].txn_id_, rid |-> r, mode |-> q[i].lock_mode_,
       call |-> o, pos |-> i, own |-> FirstOf(q, t)] :
         i \in { j \in WoundIdx(q, t, o) : txn_state[q[j].txn_id_] # "ABORTED" } }

\* The body of the while loop of a lock call and what follows it, run with
\* latch_ held: one evaluation of NeedWait / NeedWaitUpdate on queue q of
\* rid r (q already holds the caller's request), then cv_.wait or the grant.
Evaluate(t, r, q, sls, xls) ==
    LET o       == op[t]
        victims == Victims(q, t, o)
        st1     == [v \in Txns |-> IF v \in victims THEN "ABORTED" ELSE txn_state[v]]
        nf1     == IF victims # {} THEN NotifyAll(notified, r) ELSE notified
    IN  /\ wounds' = WoundLog(q, t, o, r)
        /\ IF MustWait(q, t, o)
           THEN /\ pc' = [pc EXCEPT ![t] = "wait"]
                /\ notified' = [nf1 EXCEPT ![t] = FALSE]
                /\ txn_state' = st1
                /\ lock_table' = [lock_table EXCEPT ![r].request_queue_ = q]
                /\ shared_lock_set' = sls
                /\ exclusive_lock_set' = xls
                /\ ret' = NoReturn
                /\ op' = op
                /\ arg' = arg
           ELSE /\ pc' = [pc EXCEPT ![t] = "idle"]
                /\ notified' = [nf1 EXCEPT ![t] = FALSE]
                /\ txn_state' = [st1 EXCEPT ![t] = "GROWING"]
                /\ ret' = Return(t, o, r, "true")
                /\ op' = [op EXCEPT ![t] = "none"]
                /\ arg' = [arg EXCEPT ![t] = 0]
                /\ IF o = "LockUpgrade"
                   THEN \* the range-for iterates over copies: the queue is not changed
                        /\ lock_table' = [lock_table EXCEPT ![r].request_queue_ = q]
                        /\ shared_lock_set' = [sls EXCEPT ![t] = @ \ {r}]
                        /\ exclusive_lock_set' = [xls EXCEPT ![t] = @ \cup {r}]
                   ELSE /\ lock_table' = [lock_table EXCEPT ![r].request_queue_ = GrantAll(q, t)]
                        /\ shared_lock_set' = sls
                        /\ exclusive_lock_set' = xls

\* LockShared / LockExclusive / LockUpgrade, first statement: CheckAbort
LockEntry(t, o, r) ==
    /\ pc[t] = "idle"
    /\ o = "LockUpgrade" => r \in shared_lock_set[t]
    /\ wounds' = {}
    /\ IF CheckAbort(t)
       THEN /\ ret' = Return(t, o, r, "false")
            /\ UNCHANGED <<pc, op, arg>>
       ELSE /\ ret' = NoReturn
            /\ pc' = [pc EXCEPT ![t] = "check"]
            /\ op' = [op EXCEPT ![t] = o]
            /\ arg' = [arg EXCEPT ![t] = r]
    /\ UNCHANGED <<lock_table, txn_state, isolation, shared_lock_set,
                   exclusive_lock_set, notified>>

\* the checks between CheckAbort and the acquisition of latch_
LockCheck(t) ==
    /\ pc[t] = "check"
    /\ wounds' = {}
    /\ IF op[t] = "LockShared" /\ isolation[t] = "READ_UNCOMMITTED"
       THEN /\ txn_state' = [txn_state EXCEPT ![t] = "ABORTED"]
            /\ ret' = Return(t, op[t], arg[t], "false")
       ELSE IF txn_state[t] # "GROWING"
       THEN /\ txn_state' = [txn_state EXCEPT ![t] = "ABORTED"]
            /\ ret' = Return(t, op[t], arg[t],
                             IF op[t] = "LockUpgrade" THEN "UPGRADE_CONFLICT"
                                                      ELSE "LOCK_ON_SHRINKING")
       ELSE IF \/ op[t] = "LockShared" /\ arg[t] \in shared_lock_set[t]
               \/ op[t] # "LockShared" /\ arg[t] \in exclusive_lock_set[t]
       THEN /\ ret' = Return(t, op[t], arg[t], "true")
            /\ UNCHANGED txn_state
       ELSE /\ ret' = NoReturn
            /\ UNCHANGED txn_state
    /\ IF ret' = NoReturn
       THEN /\ pc' = [pc EXCEPT ![t] = "latch"]
            /\ UNCHANGED <<op, arg>>
       ELSE /\ pc' = [pc EXCEPT ![t] = "idle"]
            /\ op' = [op EXCEPT ![t] = "none"]
            /\ arg' = [arg EXCEPT ![t] = 0]
    /\ UNCHANGED <<lock_table, isolation, shared_lock_set, exclusive_lock_set, notified>>

\* latch_ acquired: append the request, first evaluation of the wait loop
LockAcquire(t) ==
    /\ pc[t] = "latch"
    /\ LET r == arg[t]
           q == Queue(r)
       IN  IF op[t] = "LockUpgrade"
           THEN /\ HasRequest(q, t)
                /\ Evaluate(t, r, q, shared_lock_set, exclusive_lock_set)
           ELSE /\ Len(q) < MaxQueue
                /\ IF op[t] = "LockShared"
                   THEN Evaluate(t, r, Append(q, LockRequest(t, "SHARED")),
                                 [shared_lock_set EXCEPT ![t] = @ \cup {r}],
                                 exclusive_lock_set)
                   ELSE Evaluate(t, r, Append(q, LockRequest(t, "EXCLUSIVE")),
                                 shared_lock_set,
                                 [exclusive_lock_set EXCEPT ![t] = @ \cup {r}])
    /\ UNCHANGED isolation

\* return from cv_.wait: CheckAbort, then the loop condition again
Resume(t) ==
    /\ IF CheckAbort(t)
       THEN /\ pc' = [pc EXCEPT ![t] = "idle"]
            /\ ret' = Return(t, op[t], arg[t], "false")
            /\ op' = [op EXCEPT ![t] = "none"]
            /\ arg' = [arg EXCEPT ![t] = 0]
            /\ notified' = [notified EXCEPT ![t] = FALSE]
            /\ wounds' = {}
            /\ UNCHANGED <<lock_table, txn_state, shared_lock_set, exclusive_lock_set>>
       ELSE Evaluate(t, arg[t], Queue(arg[t]), shared_lock_set, exclusive_lock_set)
    /\ UNCHANGED isolation

\* woken by notify_all
Wake(t) ==
    /\ pc[t] = "wait"
    /\ notified[t]
    /\ Resume(t)

\* condition_variable::wait may return without a notification
SpuriousWake(t) ==
    /\ pc[t] = "wait"
    /\ ~ notified[t]
    /\ Resume(t)

\* the state Unlock leaves a transaction of state st and isolation level iso in
UnlockState_NoShrinking(st, iso) == st

UnlockState(st, iso) ==
    IF st = "GROWING" /\ iso = "REPEATABLE_READ" THEN "SHRINKING" ELSE st

Unlock(t, r) ==
    /\ pc[t] = "idle"
    /\ wounds' = {}
    /\ IF r \notin shared_lock_set[t] /\ r \notin exclusive_lock_set[t]
       THEN /\ ret' = Return(t, "Unlock", r, "false")
            /\ UNCHANGED <<lock_table, txn_state, shared_lock_set,
                           exclusive_lock_set, notified>>
       ELSE LET q   == Queue(r)
                upg == IF lock_table[r].upgrading_ = t THEN INVALID_TXN_ID
                       ELSE lock_table[r].upgrading_
            IN  IF HasRequest(q, t)
                THEN /\ lock_table' = [lock_table EXCEPT ![r] =
                            [request_queue_ |-> RemoveAt(q, FirstOf(q, t)),
                             upgrading_ |-> upg]]
                     /\ notified' = NotifyAll(notified, r)
                     /\ txn_state' = [txn_state EXCEPT ![t] = UnlockState(@, isolation[t])]
                     /\ shared_lock_set' = [shared_lock_set EXCEPT ![t] = @ \ {r}]
                     /\ exclusive_lock_set' = [exclusive_lock_set EXCEPT ![t] = @ \ {r}]
                     /\ ret' = Return(t, "Unlock", r, "true")
                ELSE /\ lock_table' = [lock_table EXCEPT ![r].upgrading_ = upg]
                     /\ ret' = Return(t, "Unlock", r, "false")
                     /\ UNCHANGED <<txn_state, shared_lock_set,
                                    exclusive_lock_set, notified>>
    /\ UNCHANGED <<isolation, pc, op, arg>>

\* ---------------------------------------------------------------- replacer
Contains(q, x) == \E i \in 1 .. Len(q) : q[i] = x

Without(q, x) == SelectSeq(q, LAMBDA y : y # x)

\* LRUReplacer::Victim: the back of the list
VictimFrame(list) == list[Len(list)]

ReplacerPin_Noop(list, hash, f) == [list |-> list, hash |-> hash]

ReplacerPin(list, hash, f) ==
    IF f \notin hash THEN [list |-> list, hash |-> hash]
    ELSE [list |-> Without(list, f), hash |-> hash \ {f}]

ReplacerUnpin_Noop(list, hash, f) == [list |-> list, hash |-> hash]

ReplacerUnpin_Back(list, hash, f) ==
    IF f \in hash THEN [list |-> list, hash |-> hash]
    ELSE IF Len(list) >= PoolSize THEN [list |-> list, hash |-> hash]
    ELSE [list |-> Append(list, f), hash |-> hash \cup {f}]

ReplacerUnpin(list, hash, f) ==
    IF f \in hash THEN [list |-> list, hash |-> hash]
    ELSE IF Len(list) >= PoolSize THEN [list |-> list, hash |-> hash]
    ELSE [list |-> <<f>> \o list, hash |-> hash \cup {f}]

\* ------------------------------------------------------------- buffer pool
NoBpCall == [call |-> "none", page |-> INVALID_PAGE_ID, ok |-> FALSE,
             frame |-> -1, wrote |-> << >>, dealloc |-> FALSE]

BpReturn(c, p, ok, f, w, d) ==
    [call |-> c, page |-> p, ok |-> ok, frame |-> f, wrote |-> w, dealloc |-> d]

Resident(p) == p \in DOMAIN page_table_

Erase_Noop(pt, p) == pt

\* page_table_.erase(p)
Erase(pt, p) == [x \in (DOMAIN pt) \ {p} |-> pt[x]]

\* page_table_[p] = f
Put(pt, p, f) == [x \in (DOMAIN pt) \cup {p} |-> IF x = p THEN f ELSE pt[x]]

WritePage_Lost(d, p, bytes) == d

\* DiskManager::WritePage
WritePage(d, p, bytes) == [d EXCEPT ![p] = bytes]

\* The frame NewPgImp / FetchPgImp take for page p whose bytes are b: the head
\* of the free list, else the replacer's victim (written back when dirty).
\* c names the call.
TakeFrame(c, p, b) ==
    IF free_list_ # << >>
    THEN LET f == Head(free_list_)
             rp == ReplacerPin(lru_list_, lru_hash_, f)
         IN  /\ free_list_' = Tail(free_list_)
             /\ pages_' = [pages_ EXCEPT ![f] =
                    [page_id_ |-> p, pin_count_ |-> 1, is_dirty_ |-> FALSE, data_ |-> b]]
             /\ page_table_' = Put(page_table_, p, f)
             /\ lru_list_' = rp.list
             /\ lru_hash_' = rp.hash
             /\ disk' = disk
             /\ bp_ret' = BpReturn(c, p, TRUE, f, << >>, FALSE)
    ELSE IF lru_list_ # << >>
    THEN LET f == VictimFrame(lru_list_)
             old == pages_[f]
             vl == SubSeq(lru_list_, 1, Len(lru_list_) - 1)
             vh == lru_hash_ \ {f}
             rp == ReplacerPin(vl, vh, f)
         IN  /\ free_list_' = free_list_
             /\ disk' = IF old.is_dirty_ THEN WritePage(disk, old.page_id_, old.data_)
                        ELSE disk
             /\ pages_' = [pages_ EXCEPT ![f] =
                    [page_id_ |-> p, pin_count_ |-> 1, is_dirty_ |-> FALSE, data_ |-> b]]
             /\ page_table_' = Put(Erase(page_table_, old.page_id_), p, f)
             /\ lru_list_' = rp.list
             /\ lru_hash_' = rp.hash
             /\ bp_ret' = BpReturn(c, p, TRUE, f,
                                   IF old.is_dirty_ THEN <<old.page_id_>> ELSE << >>, FALSE)
    ELSE /\ bp_ret' = BpReturn(c, INVALID_PAGE_ID, FALSE, -1, << >>, FALSE)
         /\ UNCHANGED <<pages_, page_table_, free_list_, lru_list_, lru_hash_, disk>>

AllocatePage_Same(next) == next

\* the counter after AllocatePage (num_instances_ = 1)
AllocatePage(next) == next + 1

NewPgImp ==
    /\ next_page_id_ < MaxPages
    /\ TakeFrame("NewPage", next_page_id_, 0)
    \* AllocatePage runs only when a frame was found
    /\ next_page_id_' = IF bp_ret'.ok THEN AllocatePage(next_page_id_) ELSE next_page_id_

FetchPgImp(p) ==
    /\ IF Resident(p)
       THEN LET f == page_table_[p]
                rp == ReplacerPin(lru_list_, lru_hash_, f)
            IN  /\ pages_[f].pin_count_ < MaxPin
                /\ pages_' = [pages_ EXCEPT ![f].pin_count_ = @ + 1]
                /\ lru_list_' = rp.list
                /\ lru_hash_' = rp.hash
                /\ bp_ret' = BpReturn("FetchPage", p, TRUE, f, << >>, FALSE)
                /\ UNCHANGED <<page_table_, free_list_, disk>>
       ELSE TakeFrame("FetchPage", p, disk[p])
    /\ UNCHANGED next_page_id_

DirtyAfterUnpin_Assign(was, is_dirty) == is_dirty

\* if (is_dirty) page->is_dirty_ = true: the flag after UnpinPage
DirtyAfterUnpin(was, is_dirty) == IF is_dirty THEN TRUE ELSE was

UnpinPgImp(p, is_dirty) ==
    /\ IF ~ Resident(p)
       THEN /\ bp_ret' = BpReturn("UnpinPage", p, FALSE, -1, << >>, FALSE)
            /\ UNCHANGED <<pages_, lru_list_, lru_hash_>>
       ELSE LET f == page_table_[p]
            IN  IF pages_[f].pin_count_ <= 0
                THEN /\ bp_ret' = BpReturn("UnpinPage", p, FALSE, f, << >>, FALSE)
                     /\ UNCHANGED <<pages_, lru_list_, lru_hash_>>
                ELSE LET rp == IF pages_[f].pin_count_ - 1 <= 0
                               THEN ReplacerUnpin(lru_list_, lru_hash_, f)
                               ELSE [list |-> lru_list_, hash |-> lru_hash_]
                     IN  /\ pages_' = [pages_ EXCEPT
                                ![f].pin_count_ = @ - 1,
                                ![f].is_dirty_ = DirtyAfterUnpin(@, is_dirty)]
                         /\ lru_list_' = rp.list
                         /\ lru_hash_' = rp.hash
                         /\ bp_ret' = BpReturn("UnpinPage", p, TRUE, f, << >>, FALSE)
    /\ UNCHANGED <<page_table_, free_list_, next_page_id_, disk>>

PushBack_Front(list, f) == <<f>> \o list

\* free_list_.push_back(frame_id)
PushBack(list, f) == Append(list, f)

DeletePgImp(p) ==
    /\ IF ~ Resident(p)
       THEN /\ bp_ret' = BpReturn("DeletePage", p, TRUE, -1, << >>, TRUE)
            /\ UNCHANGED <<pages_, page_table_, free_list_, lru_list_, lru_hash_, disk>>
       ELSE LET f == page_table_[p]
                old == pages_[f]
                rp == ReplacerPin(lru_list_, lru_hash_, f)
            IN  IF old.pin_count_ > 0
                THEN /\ bp_ret' = BpReturn("DeletePage", p, FALSE, f, << >>, TRUE)
                     /\ UNCHANGED <<pages_, page_table_, free_list_, lru_list_,
                                    lru_hash_, disk>>
                ELSE /\ disk' = IF old.is_dirty_
                                THEN WritePage(disk, old.page_id_, old.data_) ELSE disk
                     /\ lru_list_' = rp.list
                     /\ lru_hash_' = rp.hash
                     /\ page_table_' = Erase(page_table_, old.page_id_)
                     /\ pages_' = [pages_ EXCEPT ![f] =
                            [page_id_ |-> INVALID_PAGE_ID, pin_count_ |-> 0,
                             is_dirty_ |-> FALSE, data_ |-> 0]]
                     /\ free_list_' = PushBack(free_list_, f)
                     /\ bp_ret' = BpReturn("DeletePage", p, TRUE, f,
                                    IF old.is_dirty_ THEN <<old.page_id_>> ELSE << >>, TRUE)
    /\ UNCHANGED next_page_id_

FlushPgImp(p) ==
    /\ IF p = INVALID_PAGE_ID \/ ~ Resident(p)
       THEN /\ bp_ret' = BpReturn("FlushPage", p, FALSE, -1, << >>, FALSE)
            /\ UNCHANGED <<pages_, disk>>
       ELSE LET f == page_table_[p]
            IN  /\ disk' = WritePage(disk, p, pages_[f].data_)
                /\ pages_' = [pages_ EXCEPT ![f].is_dirty_ = FALSE]
                /\ bp_ret' = BpReturn("FlushPage", p, TRUE, f, <<p>>, FALSE)
    /\ UNCHANGED <<page_table_, free_list_, lru_list_, lru_hash_, next_page_id_>>

\* the dirty resident pages, in ascending page id
RECURSIVE DirtyResident(_)
DirtyResident(ps) ==
    IF ps = {} THEN << >>
    ELSE LET p == CHOOSE x \in ps : \A y \in ps : x <= y
         IN  (IF pages_[page_table_[p]].is_dirty_ THEN <<p>> ELSE << >>)
             \o DirtyResident(ps \ {p})

\* writes every dirty resident page; the dirty flags stay set
FlushAllPgsImp ==
    /\ disk' = [p \in PageIds |->
                  IF Resident(p) /\ pages_[page_table_[p]].is_dirty_
                  THEN pages_[page_table_[p]].data_ ELSE disk[p]]
    /\ bp_ret' = BpReturn("FlushAllPages", INVALID_PAGE_ID, TRUE, -1,
                          DirtyResident(DOMAIN page_table_), FALSE)
    /\ UNCHANGED <<pages_, page_table_, free_list_, lru_list_, lru_hash_, next_page_id_>>

\* a caller that holds a pin on page p writes its bytes through GetData()
WriteData(p, b) ==
    /\ Resident(p)
    /\ pages_[page_table_[p]].pin_count_ > 0
    /\ pages_[page_table_[p]].data_ # b
    /\ pages_' = [pages_ EXCEPT ![page_table_[p]].data_ = b]
    /\ bp_ret' = BpReturn("WriteData", p, TRUE, page_table_[p], << >>, FALSE)
    /\ UNCHANGED <<page_table_, free_list_, lru_list_, lru_hash_, next_page_id_, disk>>

BpInit ==
    /\ pages_ = [f \in Frames |-> [page_id_ |-> INVALID_PAGE_ID, pin_count_ |-> 0,
                                   is_dirty_ |-> FALSE, data_ |-> 0]]
    /\ page_table_ = << >>
    /\ free_list_ = [i \in 1 .. PoolSize |-> i - 1]
    /\ lru_list_ = << >>
    /\ lru_hash_ = {}
    /\ next_page_id_ = 0
    /\ disk = [p \in PageIds |-> 0]
    /\ bp_ret = NoBpCall

\* the page ids AllocatePage has handed out: callers pass these
Allocated == 0 .. (next_page_id_ - 1)

BpStep ==
    \/ NewPgImp
    \/ \E p \in Allocated : FetchPgImp(p)
    \/ \E p \in Allocated, d \in BOOLEAN : UnpinPgImp(p, d)
    \/ \E p \in Allocated : DeletePgImp(p)
    \/ \E p \in Allocated \cup {INVALID_PAGE_ID} : FlushPgImp(p)
    \/ FlushAllPgsImp
    \/ \E p \in Allocated, b \in Bytes : WriteData(p, b)

\* -------------------------------------------------------------- hash index
\* ExtendibleHashTable over directory and bucket pages.  A bucket page is its
\* slot array (NoPair: slot not readable).
Keys == 0 .. (NumKeys - 1)
Values == 0 .. (NumValues - 1)
NoPair == << >>
BucketSlots == 1 .. BucketSize
DirSlots == 0 .. (Pow2(MaxDepth) - 1)

\* hash_fn_: the digests of the keys, one bit wider than the deepest directory
Hash(key) == key % Pow2(MaxDepth + 1)

\* x & ((1 << n) - 1)
LowBits(x, n) == x % Pow2(n)

\* x ^ (1 << n)
FlipBit(x, n) == IF (x \div Pow2(n)) % 2 = 0 THEN x + Pow2(n) ELSE x - Pow2(n)

\* HashTableBucketPage
EmptyBucket == [i \in BucketSlots |-> NoPair]
IsFull(b) == \A i \in BucketSlots : b[i] # NoPair
IsEmpty(b) == \A i \in BucketSlots : b[i] = NoPair
Readable(b) == SelectSeq(b, LAMBDA e : e # NoPair)
BucketHas(b, k, v) == \E i \in BucketSlots : b[i] = <<k, v>>
BucketGetValue(b, k) == { b[i][2] : i \in { j \in BucketSlots : b[j] # NoPair /\ b[j][1] = k } }
BucketCanInsert(b, k, v) == ~ BucketHas(b, k, v) /\ ~ IsFull(b)
BucketInsert(b, k, v) ==
    IF ~ BucketCanInsert(b, k, v) THEN b
    ELSE LET i == CHOOSE j \in BucketSlots :
                     b[j] = NoPair /\ \A h \in 1 .. (j - 1) : b[h] # NoPair
         IN  [b EXCEPT ![i] = <<k, v>>]
BucketRemove(b, k, v) ==
    IF ~ BucketHas(b, k, v) THEN b
    ELSE LET i == CHOOSE j \in BucketSlots :
                     b[j] = <<k, v>> /\ \A h \in 1 .. (j - 1) : b[h] # <<k, v>>
         IN  [b EXCEPT ![i] = NoPair]

\* HashTableDirectoryPage
NewDirectory == [global_depth_ |-> 0,
                 bucket_page_ids_ |-> [i \in DirSlots |-> 0],
                 local_depths_ |-> [i \in DirSlots |-> 0]]
DirSize(dir) == Pow2(dir.global_depth_)
Active(dir) == 0 .. (DirSize(dir) - 1)
KeyToDirectoryIndex(key, dir) == LowBits(Hash(key), dir.global_depth_)
KeyToPageId(key, dir) == dir.bucket_page_ids_[KeyToDirectoryIndex(key, dir)]
GetLocalHighBit(dir, i) == FlipBit(i, dir.local_depths_[i] - 1)
\* doubling: the new slots inherit their low-order siblings' entries
IncrGlobalDepth(dir) ==
    LET old == DirSize(dir)
    IN  [global_depth_ |-> dir.global_depth_ + 1,
         bucket_page_ids_ |-> [i \in DirSlots |->
             IF i >= old /\ i < 2 * old THEN dir.bucket_page_ids_[i - old]
             ELSE dir.bucket_page_ids_[i]],
         local_depths_ |-> [i \in DirSlots |->
             IF i >= old /\ i < 2 * old THEN dir.local_depths_[i - old]
             ELSE dir.local_depths_[i]]]
CanShrink(dir) ==
    /\ dir.global_depth_ > 0
    /\ \A i \in Active(dir) : dir.local_depths_[i] < dir.global_depth_
RECURSIVE Shrink(_)
Shrink(dir) ==
    IF CanShrink(dir) THEN Shrink([dir EXCEPT !.global_depth_ = @ - 1]) ELSE dir

MAX_BUCKET_DEPTH == MaxDepth
Threads == 0 .. (NumThreads - 1)

\* FetchDirectoryPage: the first call creates the directory page and one bucket
Created == directory_page_id_ # INVALID_PAGE_ID
FetchedDirectoryId == IF Created THEN directory_page_id_ ELSE next_page_id_
FetchedDirectory ==
    IF Created THEN directory
    ELSE [NewDirectory EXCEPT !.bucket_page_ids_[0] = AllocatePage(next_page_id_)]
FetchedBuckets ==
    IF Created THEN buckets
    ELSE [p \in {AllocatePage(next_page_id_)} |-> EmptyBucket]
FetchedNext ==
    IF Created THEN next_page_id_ ELSE AllocatePage(AllocatePage(next_page_id_))

\* the buffer pool calls of the hash table, in the order they are made
PoolCall(c, p, d) == [call |-> c, page |-> p, is_dirty |-> d]
NewPage(p) == PoolCall("NewPage", p, FALSE)
FetchPage(p) == PoolCall("FetchPage", p, FALSE)
UnpinPage(p, d) == PoolCall("UnpinPage", p, d)
DeletePage(p) == PoolCall("DeletePage", p, FALSE)

FetchCalls ==
    IF Created THEN <<FetchPage(directory_page_id_)>>
    ELSE <<NewPage(next_page_id_), NewPage(AllocatePage(next_page_id_)),
           UnpinPage(next_page_id_, TRUE), UnpinPage(AllocatePage(next_page_id_), TRUE),
           FetchPage(next_page_id_)>>

PinCount(pins, p) == IF p \in DOMAIN pins THEN pins[p] ELSE 0

RECURSIVE PinsAfter(_, _)
PinsAfter(pins, calls) ==
    IF calls = << >> THEN pins
    ELSE LET c == Head(calls)
             n == IF c.call \in {"NewPage", "FetchPage"} THEN PinCount(pins, c.page) + 1
                  ELSE IF c.call = "UnpinPage" /\ PinCount(pins, c.page) > 0
                       THEN PinCount(pins, c.page) - 1
                  ELSE PinCount(pins, c.page)
             dom == IF n = 0 THEN DOMAIN pins \ {c.page} ELSE DOMAIN pins \cup {c.page}
         IN  PinsAfter([p \in dom |-> IF p = c.page THEN n ELSE pins[p]], Tail(calls))

\* a step that makes the pool calls
Pool(calls) ==
    /\ ht_pool' = calls
    /\ ht_pins' = PinsAfter(ht_pins, calls)

StrideSlots_StartOnly(start, diff, size) == {start}

\* the slots start, start - diff, ... and start, start + diff, ... below size
StrideSlots(start, diff, size) ==
    { i \in 0 .. (size - 1) : i % diff = start % diff }

RehashTarget_SlotZero(dir, key, mask_bits) == dir.bucket_page_ids_[0]

\* the page the rehash loop sends a snapshot entry to
RehashTarget(dir, key, mask_bits) == dir.bucket_page_ids_[LowBits(Hash(key), mask_bits)]

\* the rehash loop of SplitInsert over the snapshot
RECURSIVE Rehash(_, _, _, _, _, _)
Rehash(origin, dir, bs, split_pid, image_pid, mask_bits) ==
    IF origin = << >> THEN bs
    ELSE LET e == Head(origin)
             target == RehashTarget(dir, e[1], mask_bits)
             next_bs == IF target \in {split_pid, image_pid}
                        THEN [bs EXCEPT ![target] = BucketInsert(@, e[1], e[2])]
                        ELSE bs
         IN  Rehash(Tail(origin), dir, next_bs, split_pid, image_pid, mask_bits)

\* SplitInsert between WLock and WUnlock
SplitBody(dir, bs, next, key) ==
    LET split_bucket_index == KeyToDirectoryIndex(key, dir)
        split_bucket_depth == dir.local_depths_[split_bucket_index]
    IN  IF split_bucket_depth >= MAX_BUCKET_DEPTH
        THEN [ok |-> FALSE, dir |-> dir, bs |-> bs, next |-> next,
              pool |-> <<UnpinPage(FetchedDirectoryId, FALSE)>>]
        ELSE
        LET dir1 == IF split_bucket_depth = dir.global_depth_
                    THEN IncrGlobalDepth(dir) ELSE dir
            dir2 == [dir1 EXCEPT !.local_depths_[split_bucket_index] = @ + 1]
            split_pid == KeyToPageId(key, dir2)
            origin == Readable(bs[split_pid])
            image_pid == next
            split_image_bucket_index == GetLocalHighBit(dir2, split_bucket_index)
            ld == dir2.local_depths_[split_bucket_index]
            dir3 == [dir2 EXCEPT
                       !.local_depths_[split_image_bucket_index] = ld,
                       !.bucket_page_ids_[split_image_bucket_index] = image_pid]
            diff == Pow2(ld)
            mine == StrideSlots(split_bucket_index, diff, DirSize(dir3))
            image == StrideSlots(split_image_bucket_index, diff, DirSize(dir3))
            dir4 == [dir3 EXCEPT
                       !.bucket_page_ids_ = [i \in DirSlots |->
                           IF i \in image THEN image_pid
                           ELSE IF i \in mine THEN split_pid ELSE @[i]],
                       !.local_depths_ = [i \in DirSlots |->
                           IF i \in image \cup mine THEN ld ELSE @[i]]]
            bs1 == [p \in DOMAIN bs \cup {image_pid} |->
                       IF p \in {split_pid, image_pid} THEN EmptyBucket ELSE bs[p]]
        IN  [ok |-> TRUE, dir |-> dir4,
             bs |-> Rehash(origin, dir4, bs1, split_pid, image_pid, ld),
             next |-> AllocatePage(next),
             pool |-> <<FetchPage(split_pid), NewPage(image_pid),
                        UnpinPage(split_pid, TRUE), UnpinPage(image_pid, TRUE),
                        UnpinPage(FetchedDirectoryId, TRUE)>>]

\* Merge between WLock and WUnlock
MergeBody(dir, bs, target_bucket_index) ==
    IF target_bucket_index >= DirSize(dir)
    THEN [dir |-> dir, bs |-> bs, pool |-> << >>]
    ELSE
    LET target_bucket_page_id == dir.bucket_page_ids_[target_bucket_index]
        local_depth == dir.local_depths_[target_bucket_index]
    IN  IF local_depth = 0
        THEN [dir |-> dir, bs |-> bs,
              pool |-> <<UnpinPage(FetchedDirectoryId, FALSE)>>]
        ELSE
        LET image_bucket_index == GetLocalHighBit(dir, target_bucket_index)
        IN  IF local_depth # dir.local_depths_[image_bucket_index]
            THEN [dir |-> dir, bs |-> bs,
                  pool |-> <<UnpinPage(FetchedDirectoryId, FALSE)>>]
            ELSE IF ~ IsEmpty(bs[target_bucket_page_id])
            THEN [dir |-> dir, bs |-> bs,
                  pool |-> <<FetchPage(target_bucket_page_id),
                             UnpinPage(target_bucket_page_id, FALSE),
                             UnpinPage(FetchedDirectoryId, FALSE)>>]
            ELSE
            LET image_bucket_page_id == dir.bucket_page_ids_[image_bucket_index]
                dir1 == [dir EXCEPT
                           !.bucket_page_ids_[target_bucket_index] = image_bucket_page_id]
                dir2 == [dir1 EXCEPT !.local_depths_[target_bucket_index] = @ - 1]
                dir3 == [dir2 EXCEPT !.local_depths_[image_bucket_index] = @ - 1]
                both == { i \in Active(dir3) :
                            dir3.bucket_page_ids_[i] \in
                                {target_bucket_page_id, image_bucket_page_id} }
                dir4 == [dir3 EXCEPT
                           !.bucket_page_ids_ = [i \in DirSlots |->
                               IF i \in both THEN image_bucket_page_id ELSE @[i]],
                           !.local_depths_ = [i \in DirSlots |->
                               IF i \in both THEN dir3.local_depths_[target_bucket_index]
                               ELSE @[i]]]
            IN  [dir |-> Shrink(dir4),
                 bs |-> [p \in DOMAIN bs \ {target_bucket_page_id} |-> bs[p]],
                 pool |-> <<FetchPage(target_bucket_page_id),
                            UnpinPage(target_bucket_page_id, FALSE),
                            DeletePage(target_bucket_page_id),
                            UnpinPage(FetchedDirectoryId, TRUE)>>]

NoHtReturn == [th |-> -1, call |-> "none", key |-> 0, value |-> 0, ok |-> FALSE,
               values |-> {}, done |-> FALSE]
HtReturn(th, c, k, v, ok, vals, done) ==
    [th |-> th, call |-> c, key |-> k, value |-> v, ok |-> ok, values |-> vals,
     done |-> done]
NoHtArg == [key |-> 0, value |-> 0, index |-> 0, ok |-> FALSE]

HtInit ==
    /\ directory_page_id_ = INVALID_PAGE_ID
    /\ directory = NewDirectory
    /\ buckets = [p \in {} |-> EmptyBucket]
    /\ table_latch_ = 0
    /\ ht_pc = [th \in Threads |-> "idle"]
    /\ ht_arg = [th \in Threads |-> NoHtArg]
    /\ ht_ret = NoHtReturn
    /\ ht_pool = << >>
    /\ ht_pins = [p \in {} |-> 0]
    /\ index_set = {}

HtGetValue(th, key) ==
    /\ ht_pc[th] = "idle"
    /\ directory_page_id_' = FetchedDirectoryId
    /\ directory' = FetchedDirectory
    /\ buckets' = FetchedBuckets
    /\ next_page_id_' = FetchedNext
    /\ LET result == BucketGetValue(FetchedBuckets[KeyToPageId(key, FetchedDirectory)], key)
       IN  ht_ret' = HtReturn(th, "GetValue", key, 0, result # {}, result, TRUE)
    /\ Pool(FetchCalls \o <<FetchPage(KeyToPageId(key, FetchedDirectory)),
                            UnpinPage(KeyToPageId(key, FetchedDirectory), FALSE),
                            UnpinPage(FetchedDirectoryId, FALSE)>>)
    /\ UNCHANGED <<table_latch_, ht_pc, ht_arg, index_set>>

\* Insert, entered by a new call or by the retry that ends SplitInsert
HtInsert(th, key, value) ==
    /\ \/ ht_pc[th] = "idle"
       \/ ht_pc[th] = "Insert" /\ ht_arg[th].key = key /\ ht_arg[th].value = value
    /\ table_latch_ < MaxReaders
    /\ directory_page_id_' = FetchedDirectoryId
    /\ directory' = FetchedDirectory
    /\ next_page_id_' = FetchedNext
    /\ LET bucket_page_id == KeyToPageId(key, FetchedDirectory)
           bucket == FetchedBuckets[bucket_page_id]
       IN  IF ~ IsFull(bucket)
           THEN /\ Pool(FetchCalls \o <<FetchPage(bucket_page_id),
                                        UnpinPage(bucket_page_id, TRUE),
                                        UnpinPage(FetchedDirectoryId, FALSE)>>)
                /\ buckets' = [FetchedBuckets EXCEPT
                                 ![bucket_page_id] = BucketInsert(bucket, key, value)]
                /\ table_latch_' = table_latch_ + 1
                /\ ht_pc' = [ht_pc EXCEPT ![th] = "idle"]
                /\ ht_arg' = [ht_arg EXCEPT ![th] = NoHtArg]
                /\ ht_ret' = HtReturn(th, "Insert", key, value,
                                      BucketCanInsert(bucket, key, value), {}, TRUE)
                /\ index_set' = IF BucketCanInsert(bucket, key, value)
                                THEN index_set \cup {<<key, value>>} ELSE index_set
           ELSE /\ Pool(FetchCalls \o <<FetchPage(bucket_page_id),
                                        UnpinPage(bucket_page_id, FALSE),
                                        UnpinPage(FetchedDirectoryId, FALSE)>>)
                /\ buckets' = FetchedBuckets
                /\ ht_pc' = [ht_pc EXCEPT ![th] = "SplitInsert"]
                /\ ht_arg' = [ht_arg EXCEPT ![th] =
                                [key |-> key, value |-> value, index |-> 0, ok |-> FALSE]]
                /\ ht_ret' = HtReturn(th, "Insert", key, value, FALSE, {}, FALSE)
                /\ UNCHANGED <<table_latch_, index_set>>

HtRemove(th, key, value) ==
    /\ ht_pc[th] = "idle"
    /\ directory_page_id_' = FetchedDirectoryId
    /\ directory' = FetchedDirectory
    /\ next_page_id_' = FetchedNext
    /\ LET bucket_page_id == KeyToPageId(key, FetchedDirectory)
           bucket_index == KeyToDirectoryIndex(key, FetchedDirectory)
           bucket == FetchedBuckets[bucket_page_id]
           r == BucketHas(bucket, key, value)
           after == BucketRemove(bucket, key, value)
       IN  /\ Pool(FetchCalls \o <<FetchPage(bucket_page_id),
                                   UnpinPage(bucket_page_id, TRUE),
                                   UnpinPage(FetchedDirectoryId, FALSE)>>)
           /\ buckets' = [FetchedBuckets EXCEPT ![bucket_page_id] = after]
           /\ index_set' = IF r THEN index_set \ {<<key, value>>} ELSE index_set
           /\ IF IsEmpty(after)
              THEN /\ ht_pc' = [ht_pc EXCEPT ![th] = "Merge"]
                   /\ ht_arg' = [ht_arg EXCEPT ![th] =
                                   [key |-> key, value |-> value,
                                    index |-> bucket_index, ok |-> r]]
                   /\ ht_ret' = HtReturn(th, "Remove", key, value, r, {}, FALSE)
              ELSE /\ ht_ret' = HtReturn(th, "Remove", key, value, r, {}, TRUE)
                   /\ UNCHANGED <<ht_pc, ht_arg>>
    /\ UNCHANGED table_latch_

\* ReaderWriterLatch::WLock returns once no reader holds the latch
CanWLock(reader_count) == reader_count = 0

\* SplitInsert and Merge, from their WLock on
HtWLock(th) ==
    /\ ht_pc[th] \in {"SplitInsert", "Merge"}
    /\ CanWLock(table_latch_)
    /\ directory_page_id_' = FetchedDirectoryId
    /\ IF ht_pc[th] = "SplitInsert"
       THEN LET r == SplitBody(FetchedDirectory, FetchedBuckets, FetchedNext,
                               ht_arg[th].key)
            IN  /\ Pool(FetchCalls \o r.pool)
                /\ directory' = r.dir
                /\ buckets' = r.bs
                /\ next_page_id_' = r.next
                /\ IF r.ok
                   THEN /\ ht_pc' = [ht_pc EXCEPT ![th] = "Insert"]
                        /\ ht_ret' = HtReturn(th, "SplitInsert", ht_arg[th].key,
                                              ht_arg[th].value, TRUE, {}, FALSE)
                        /\ UNCHANGED ht_arg
                   ELSE /\ ht_pc' = [ht_pc EXCEPT ![th] = "idle"]
                        /\ ht_arg' = [ht_arg EXCEPT ![th] = NoHtArg]
                        /\ ht_ret' = HtReturn(th, "Insert", ht_arg[th].key,
                                              ht_arg[th].value, FALSE, {}, TRUE)
       ELSE LET r == MergeBody(FetchedDirectory, FetchedBuckets, ht_arg[th].index)
            IN  /\ Pool(FetchCalls \o r.pool)
                /\ directory' = r.dir
                /\ buckets' = r.bs
                /\ next_page_id_' = FetchedNext
                /\ ht_pc' = [ht_pc EXCEPT ![th] = "idle"]
                /\ ht_arg' = [ht_arg EXCEPT ![th] = NoHtArg]
                /\ ht_ret' = HtReturn(th, "Remove", ht_arg[th].key, ht_arg[th].value,
                                      ht_arg[th].ok, {}, TRUE)
    /\ UNCHANGED <<table_latch_, index_set>>

\* the hash-index steps of the threads T
HtStep(T) ==
    \/ \E th \in T, k \in Keys : HtGetValue(th, k)
    \/ \E th \in T, k \in Keys, v \in Values : HtInsert(th, k, v)
    \/ \E th \in T, k \in Keys, v \in Values : HtRemove(th, k, v)
    \/ \E th \in T : HtWLock(th)

\* ------------------------------------------------------------ specification
\* every transaction of a run has the same isolation level l
LmInit(l) ==
    /\ lock_table = [r \in Rids |-> [request_queue_ |-> << >>, upgrading_ |-> INVALID_TXN_ID]]
    /\ txn_state = [t \in Txns |-> "GROWING"]
    /\ isolation = [t \in Txns |-> l]
    /\ shared_lock_set = [t \in Txns |-> {}]
    /\ exclusive_lock_set = [t \in Txns |-> {}]
    /\ pc = [t \in Txns |-> "idle"]
    /\ op = [t \in Txns |-> "none"]
    /\ arg = [t \in Txns |-> 0]
    /\ notified = [t \in Txns |-> FALSE]
    /\ ret = NoReturn
    /\ wounds = {}

RpInit == entered = << >>

Init == LmInit("REPEATABLE_READ") /\ BpInit /\ RpInit /\ HtInit

InitLevels == (\E l \in IsolationLevels : LmInit(l)) /\ BpInit /\ RpInit /\ HtInit

InitRU == LmInit("READ_UNCOMMITTED") /\ BpInit /\ RpInit /\ HtInit

\* the lock-manager steps of the transactions T on the records R
LockStep(T, R) ==
    \/ \E t \in T, o \in LockOps, r \in R : LockEntry(t, o, r)
    \/ \E t \in T : LockCheck(t)
    \/ \E t \in T : LockAcquire(t)
    \/ \E t \in T : Wake(t)
    \/ \E t \in T : SpuriousWake(t)
    \/ \E t \in T, r \in R : Unlock(t, r)

OneRid == {0}
TwoTxns == {0, 1}

\* REPEATABLE_READ transactions, all on one record
Next == LockStep(Txns, OneRid) /\ UNCHANGED <<bpvars, rpvars, htvars>>

Spec == Init /\ [][Next]_vars

\* two transactions on one record, at each isolation level
NextLevels == LockStep(TwoTxns, OneRid) /\ UNCHANGED <<bpvars, rpvars, htvars>>

SpecLevels == InitLevels /\ [][NextLevels]_vars

\* READ_UNCOMMITTED transactions (exclusive locks only) on all records
NextRids == LockStep(Txns, Rids) /\ UNCHANGED <<bpvars, rpvars, htvars>>

SpecRids == InitRU /\ [][NextRids]_vars

\* the buffer pool alone, driven by arbitrary callers
NextPool == BpStep /\ UNCHANGED <<lmvars, rpvars, htvars>>

SpecPool == Init /\ [][NextPool]_vars

\* the frame ids handed to a replacer driven on its own: more than max_size_
ReplacerFrames == 0 .. (PoolSize + 2)

\* the observer's list after a replacer call: the frames that left the
\* evictable set are dropped, the frame that joined it is put last
Observe(seen, before, after) ==
    LET kept == SelectSeq(seen, LAMBDA x : x \in after)
        new  == after \ before
    IN  IF new = {} THEN kept ELSE Append(kept, CHOOSE x \in new : TRUE)

\* LRUReplacer::Victim
ReplacerVictim ==
    /\ IF lru_list_ = << >>
       THEN /\ bp_ret' = BpReturn("Victim", INVALID_PAGE_ID, FALSE, -1, << >>, FALSE)
            /\ UNCHANGED <<lru_list_, lru_hash_>>
       ELSE LET f == VictimFrame(lru_list_)
            IN  /\ lru_hash_' = lru_hash_ \ {f}
                /\ lru_list_' = SubSeq(lru_list_, 1, Len(lru_list_) - 1)
                /\ bp_ret' = BpReturn("Victim", INVALID_PAGE_ID, TRUE, f, << >>, FALSE)
    /\ entered' = Observe(entered, lru_hash_, lru_hash_')

\* LRUReplacer::Pin(f) / Unpin(f), called directly
ReplacerCall(c, f) ==
    LET rp == IF c = "Pin" THEN ReplacerPin(lru_list_, lru_hash_, f)
              ELSE ReplacerUnpin(lru_list_, lru_hash_, f)
    IN  /\ lru_list_' = rp.list
        /\ lru_hash_' = rp.hash
        /\ bp_ret' = BpReturn(c, INVALID_PAGE_ID, TRUE, f, << >>, FALSE)
        /\ entered' = Observe(entered, lru_hash_, lru_hash_')

RpStep ==
    \/ ReplacerVictim
    \/ \E f \in ReplacerFrames : ReplacerCall("Pin", f)
    \/ \E f \in ReplacerFrames : ReplacerCall("Unpin", f)

NextReplacer ==
    /\ RpStep
    /\ UNCHANGED <<lmvars, pages_, page_table_, free_list_, next_page_id_, disk, htvars>>

SpecReplacer == Init /\ [][NextReplacer]_vars

\* the hash index from its construction, NumThreads threads calling it
NextHash ==
    /\ HtStep(Threads)
    /\ UNCHANGED <<lmvars, rpvars, pages_, page_table_, free_list_, lru_list_,
                   lru_hash_, disk, bp_ret>>

SpecHash == Init /\ [][NextHash]_vars

\* SplitInsert and Merge as functions of the table they are given: every table
\* within the bounds whose directory is a binary trie over the hash bits and
\* whose pairs lie in the bucket their hash selects, with no reader on the table
\* latch
DirWellFormed(dir) ==
    \A i \in Active(dir) :
        /\ dir.local_depths_[i] <= dir.global_depth_
        /\ \A j \in Active(dir) :
              IF LowBits(j, dir.local_depths_[i]) = LowBits(i, dir.local_depths_[i])
              THEN /\ dir.bucket_page_ids_[j] = dir.bucket_page_ids_[i]
                   /\ dir.local_depths_[j] = dir.local_depths_[i]
              ELSE dir.bucket_page_ids_[j] # dir.bucket_page_ids_[i]

\* bucket pages 1, 2, ... numbered by the lowest slot that points to them
TablePageIds(dir) ==
    [dir EXCEPT !.bucket_page_ids_ =
        [i \in DirSlots |-> IF i \in Active(dir)
                            THEN 1 + LowBits(i, dir.local_depths_[i]) ELSE 0]]

TableDirectories ==
    { d \in { TablePageIds(dir) :
                dir \in [global_depth_ : 0 .. MaxDepth,
                         bucket_page_ids_ : {[i \in DirSlots |-> 0]},
                         local_depths_ : [DirSlots -> 0 .. MaxDepth]] } :
        /\ \A i \in DirSlots \ Active(d) : d.local_depths_[i] = 0
        /\ DirWellFormed(d) }

\* the slot arrays a bucket page may hold when slot i of dir points to it
TableArrays(dir, i) ==
    { b \in [BucketSlots -> {NoPair} \cup (Keys \X Values)] :
        /\ \A s \in BucketSlots : b[s] # NoPair =>
              LowBits(Hash(b[s][1]), dir.local_depths_[i]) = LowBits(i, dir.local_depths_[i])
        /\ \A s, t \in BucketSlots : (s # t /\ b[s] # NoPair) => b[s] # b[t] }

RECURSIVE TableBuckets(_, _)
TableBuckets(dir, slots) ==
    IF slots = {} THEN {[p \in {} |-> EmptyBucket]}
    ELSE LET i == CHOOSE x \in slots : \A y \in slots : x <= y
             same == { j \in slots : dir.bucket_page_ids_[j] = dir.bucket_page_ids_[i] }
         IN  { [p \in DOMAIN m \cup {dir.bucket_page_ids_[i]} |->
                  IF p = dir.bucket_page_ids_[i] THEN b ELSE m[p]] :
               m \in TableBuckets(dir, slots \ same), b \in TableArrays(dir, i) }

InitTables ==
    /\ LmInit("REPEATABLE_READ") /\ RpInit
    /\ pages_ = [f \in Frames |-> [page_id_ |-> INVALID_PAGE_ID, pin_count_ |-> 0,
                                   is_dirty_ |-> FALSE, data_ |-> 0]]
    /\ page_table_ = << >>
    /\ free_list_ = [i \in 1 .. PoolSize |-> i - 1]
    /\ lru_list_ = << >>
    /\ lru_hash_ = {}
    /\ disk = [p \in PageIds |-> 0]
    /\ bp_ret = NoBpCall
    /\ next_page_id_ = 1 + Pow2(MaxDepth)
    /\ directory_page_id_ = 0
    /\ directory \in TableDirectories
    /\ buckets \in TableBuckets(directory, Active(directory))
    /\ table_latch_ = 0
    /\ ht_pc = [th \in Threads |-> "idle"]
    /\ ht_arg = [th \in Threads |-> NoHtArg]
    /\ ht_ret = NoHtReturn
    /\ ht_pool = << >>
    /\ ht_pins = [p \in {} |-> 0]
    /\ index_set = { buckets[p][s] : p \in DOMAIN buckets, s \in BucketSlots } \ {NoPair}

\* one call on each table, followed through its splits, its retries and its merge
NextTables ==
    /\ ht_ret.call = "none" \/ ht_pc[0] # "idle"
    /\ HtStep({0})
    /\ UNCHANGED <<lmvars, rpvars, pages_, page_table_, free_list_, lru_list_,
                   lru_hash_, disk, bp_ret>>

SpecTables == InitTables /\ [][NextTables]_vars

\* Remove calls of NumThreads threads racing on each of those tables: a thread
\* begins a Remove while the table is untouched or another Remove is under way
NextRace ==
    /\ ht_ret.call = "none" \/ \E th \in Threads : ht_pc[th] # "idle"
    /\ \/ \E th \in Threads, k \in Keys, v \in Values : HtRemove(th, k, v)
       \/ \E th \in Threads : HtWLock(th)
    /\ UNCHANGED <<lmvars, rpvars, pages_, page_table_, free_list_, lru_list_,
                   lru_hash_, disk, bp_ret>>

SpecRace == InitTables /\ [][NextRace]_vars

\* ------------------------------------------------------------------ claims
IsLockOp(o) == o \in LockOps

\* C1: in every queue a granted EXCLUSIVE request is the only granted request:
\* no request of another transaction in the same queue is granted with it.
C1_ExclusiveIsAlone ==
    \A r \in Rids : \A i, j \in 1 .. Len(Queue(r)) :
        ( /\ Queue(r)[i].granted_
          /\ Queue(r)[i].lock_mode_ = "EXCLUSIVE"
          /\ Queue(r)[j].txn_id_ # Queue(r)[i].txn_id_ )
        => ~ Queue(r)[j].granted_

\* C2: wound-then-wait: when LockExclusive returns true to a transaction, no
\* granted request of a younger transaction is still in the queue ahead of the
\* caller's request (the wounded holder has unlocked first).
C2_WoundThenWait ==
    ( ret.op = "LockExclusive" /\ ret.val = "true" )
    => \A i \in 1 .. Len(Queue(ret.rid)) :
          ( /\ Queue(ret.rid)[i].txn_id_ > ret.txn
            /\ Queue(ret.rid)[i].granted_ )
          => \E j \in 1 .. (i - 1) : Queue(ret.rid)[j].txn_id_ = ret.txn

\* C5: after LockUpgrade returns true, the caller's request in the queue is
\* EXCLUSIVE and granted, rid is in its exclusive lock set and not in its
\* shared lock set.
C5_UpgradeRewritesRequest ==
    ( ret.op = "LockUpgrade" /\ ret.val = "true" )
    => /\ \A i \in 1 .. Len(Queue(ret.rid)) :
             Queue(ret.rid)[i].txn_id_ = ret.txn
             => ( Queue(ret.rid)[i].lock_mode_ = "EXCLUSIVE" /\ Queue(ret.rid)[i].granted_ )
       /\ HasRequest(Queue(ret.rid), ret.txn)
       /\ ret.rid \in exclusive_lock_set[ret.txn]
       /\ ret.rid \notin shared_lock_set[ret.txn]

\* C6: at most one upgrade is pending per queue: two transactions are never
\* both waiting inside LockUpgrade on the same rid.
C6_OneUpgradePending ==
    \A t, u \in Txns :
        ( /\ t # u
          /\ pc[t] = "wait" /\ op[t] = "LockUpgrade"
          /\ pc[u] = "wait" /\ op[u] = "LockUpgrade" )
        => arg[t] # arg[u]

\* C7: a wound hits only a strictly younger transaction whose request precedes
\* the caller's in the queue, and a LockShared caller wounds only through an
\* EXCLUSIVE request.
C7_WoundsAgeDirected ==
    \A w \in wounds :
        /\ w.victim > w.by
        /\ w.pos < w.own
        /\ w.call = "LockShared" => w.mode = "EXCLUSIVE"

\* C8: after Unlock(txn, rid) returns true the queue of rid holds no request of
\* txn and rid is in neither of its lock sets.
C8_UnlockRemovesRequest ==
    ( ret.op = "Unlock" /\ ret.val = "true" )
    => /\ ~ HasRequest(Queue(ret.rid), ret.txn)
       /\ ret.rid \notin shared_lock_set[ret.txn]
       /\ ret.rid \notin exclusive_lock_set[ret.txn]

\* C9: every wound of a transaction blocked in cv_.wait notifies the
\* condition variable it is waiting on (so that it wakes and sees ABORTED).
C9_WoundNotifiesVictim ==
    \A w \in wounds :
        pc[w.victim] = "wait" => notified[w.victim]

\* the three parts of two-phase locking, as conditions on one step
C3_UnlockRule(t) ==
    ( ret'.op = "Unlock" /\ ret'.val = "true" /\ ret'.txn = t /\ pc[t] = "idle" )
    => txn_state'[t] =
          IF txn_state[t] = "GROWING" /\ isolation[t] = "REPEATABLE_READ"
          THEN "SHRINKING" ELSE txn_state[t]

C3_ShrinkingRule(t) ==
    /\ ( pc[t] = "idle" /\ txn_state[t] = "SHRINKING" /\ pc'[t] # "idle" )
       => ( pc'[t] = "check" /\ lock_table' = lock_table )
    /\ ( /\ pc[t] = "check" /\ pc'[t] # "check"
         /\ txn_state[t] = "SHRINKING"
         /\ op[t] \in {"LockShared", "LockExclusive"} )
       => /\ txn_state'[t] = "ABORTED"
          /\ ret' = Return(t, op[t], arg[t], "LOCK_ON_SHRINKING")
          /\ pc'[t] = "idle"
          /\ lock_table' = lock_table
          /\ shared_lock_set' = shared_lock_set
          /\ exclusive_lock_set' = exclusive_lock_set

C3_Left(t) ==
    /\ isolation[t] = "REPEATABLE_READ"
    /\ txn_state[t] # "GROWING"
    /\ pc[t] \in {"idle", "check"}

C3_NoRegrow(t) ==
    C3_Left(t)
    => /\ C3_Left(t)'
       /\ ~ ( ret'.txn = t /\ IsLockOp(ret'.op) /\ ret'.val = "true" )

\* C3: two-phase locking.  (1) An Unlock that returns true moves a GROWING
\* REPEATABLE_READ transaction to SHRINKING and leaves every other state as it
\* is; (2) a LockShared / LockExclusive call of a SHRINKING transaction sets it
\* ABORTED, raises LOCK_ON_SHRINKING, appends no request and adds no rid to a
\* lock set; (3) a REPEATABLE_READ transaction that has left GROWING and is
\* outside a lock call never returns to GROWING and no lock call of it returns
\* true.
C3_TwoPhaseLocking ==
    [][ \A t \in Txns : C3_UnlockRule(t) /\ C3_ShrinkingRule(t) /\ C3_NoRegrow(t) ]_vars

\* a SHRINKING transaction called LockShared / LockExclusive and was rejected
C3_Witness ==
    /\ ret.val = "LOCK_ON_SHRINKING"
    /\ ret.txn \in Txns
    /\ isolation[ret.txn] = "REPEATABLE_READ"
    /\ txn_state[ret.txn] = "ABORTED"
    /\ \E u \in Txns : txn_state[u] = "SHRINKING"

\* C4: a younger transaction T2 whose LockExclusive request is queued behind
\* the granted EXCLUSIVE request of an older transaction T1 blocks while that
\* request is in the queue: LockExclusive never returns true to T2 while a
\* granted EXCLUSIVE request of an older transaction precedes every request
\* of T2 in the queue.
C4_YoungerWaits ==
    ( ret.op = "LockExclusive" /\ ret.val = "true" )
    => ~ \E i \in 1 .. Len(Queue(ret.rid)) :
            /\ Queue(ret.rid)[i].lock_mode_ = "EXCLUSIVE"
            /\ Queue(ret.rid)[i].granted_
            /\ Queue(ret.rid)[i].txn_id_ < ret.txn
            /\ i < FirstOf(Queue(ret.rid), ret.txn)

\* the three classes of frames
C10_InFree(f) == Contains(free_list_, f)
C10_InReplacer(f) == Contains(lru_list_, f)
C10_Pinned(f) == pages_[f].pin_count_ > 0

\* C10: every frame is in exactly one of the free list, the replacer
\* (pin_count = 0 and its page resident) and the pinned set (pin_count > 0);
\* no frame is listed twice.
C10_FramePartition ==
    /\ \A f \in Frames :
          /\ C10_InFree(f) \/ C10_InReplacer(f) \/ C10_Pinned(f)
          /\ ~ (C10_InFree(f) /\ C10_InReplacer(f))
          /\ ~ (C10_InFree(f) /\ C10_Pinned(f))
          /\ ~ (C10_InReplacer(f) /\ C10_Pinned(f))
          /\ C10_InReplacer(f) =>
                /\ pages_[f].pin_count_ = 0
                /\ pages_[f].page_id_ \in DOMAIN page_table_
                /\ page_table_[pages_[f].page_id_] = f
          /\ C10_InReplacer(f) <=> f \in lru_hash_
    /\ \A i, j \in 1 .. Len(free_list_) : i # j => free_list_[i] # free_list_[j]
    /\ \A i, j \in 1 .. Len(lru_list_) : i # j => lru_list_[i] # lru_list_[j]
    /\ \A i \in 1 .. Len(free_list_) : free_list_[i] \in Frames
    /\ \A i \in 1 .. Len(lru_list_) : lru_list_[i] \in Frames

\* every page id has been allocated (so frames were evicted), and a FetchPage
\* has just pinned a frame a second time while another frame is evictable
C10_Witness ==
    /\ next_page_id_ = MaxPages
    /\ bp_ret.call = "FetchPage" /\ bp_ret.ok
    /\ \E f, g \in Frames : C10_InReplacer(f) /\ C10_Pinned(g) /\ pages_[g].pin_count_ = MaxPin

\* C11: the page table is a bijection between the resident page ids and the
\* occupied frames: a page id in the table is held by the frame it maps to
\* and by no other frame, and every frame outside the free list holds a page
\* id that the table maps to it.
C11_PageTableBijection ==
    /\ \A p \in DOMAIN page_table_ :
          /\ page_table_[p] \in Frames
          /\ pages_[page_table_[p]].page_id_ = p
          /\ \A f \in Frames : pages_[f].page_id_ = p => f = page_table_[p]
          /\ ~ Contains(free_list_, page_table_[p])
    /\ \A f \in Frames :
          ~ Contains(free_list_, f)
          => /\ pages_[f].page_id_ \in DOMAIN page_table_
             /\ page_table_[pages_[f].page_id_] = f

\* a FetchPage has just evicted a dirty page while every frame is occupied and
\* every page id has been allocated
C11_Witness ==
    /\ bp_ret.call = "FetchPage" /\ bp_ret.ok
    /\ bp_ret.wrote # << >>
    /\ free_list_ = << >>
    /\ Cardinality(DOMAIN page_table_) = PoolSize
    /\ next_page_id_ = MaxPages

\* C12: a step that gives the frame of a dirty page another page id (victim
\* of NewPage / FetchPage) or frees it (DeletePage) writes the page's current
\* bytes to disk under the old page id.
C12_DirtyWrittenBeforeReuse ==
    [][ \A f \in Frames :
          ( /\ pages_[f].is_dirty_
            /\ pages_[f].page_id_ # INVALID_PAGE_ID
            /\ pages_'[f].page_id_ # pages_[f].page_id_ )
          => /\ disk'[pages_[f].page_id_] = pages_[f].data_
             /\ bp_ret'.wrote = <<pages_[f].page_id_>>
             /\ bp_ret'.call \in {"NewPage", "FetchPage", "DeletePage"} ]_vars

\* a dirty page whose bytes differed from the disk's has just been evicted or
\* deleted, and the disk now holds its bytes
C12_Witness ==
    /\ bp_ret.call \in {"NewPage", "FetchPage", "DeletePage"}
    /\ bp_ret.wrote # << >>
    /\ ~ Resident(bp_ret.wrote[1])
    /\ disk[bp_ret.wrote[1]] = 1

\* the bytes a FetchPage of p hands out: the frame's when resident, else the disk's
C13_Content(p) ==
    IF Resident(p) THEN pages_[page_table_[p]].data_ ELSE disk[p]

\* a resident page's bytes are on disk or its frame is marked dirty
C13_Durable(p) ==
    Resident(p) => \/ pages_[page_table_[p]].is_dirty_
                   \/ pages_[page_table_[p]].data_ = disk[p]

\* C13: round trip through eviction.  Once the bytes written to a page are
\* covered by its dirty flag (UnpinPage(x, true)) or are on disk, every step
\* other than a caller's write to that page, evictions included, keeps them:
\* the page stays covered, a FetchPage of it returns those bytes, and UnpinPage
\* never clears a set dirty flag.
C13_RoundTrip ==
    [][ \A p \in PageIds :
          /\ ( C13_Durable(p) /\ ~ (bp_ret'.call = "WriteData" /\ bp_ret'.page = p) )
             => /\ C13_Durable(p)'
                /\ C13_Content(p)' = C13_Content(p)
                /\ ( bp_ret'.call = "FetchPage" /\ bp_ret'.page = p /\ bp_ret'.ok )
                   => pages_'[bp_ret'.frame].data_ = C13_Content(p)
          /\ ( /\ bp_ret'.call = "UnpinPage" /\ bp_ret'.page = p /\ bp_ret'.ok
               /\ pages_[bp_ret'.frame].is_dirty_ )
             => pages_'[bp_ret'.frame].is_dirty_ ]_vars

\* a FetchPage that had to evict a dirty page has read back from disk the
\* bytes a caller wrote to the fetched page before it was evicted
C13_Witness ==
    /\ bp_ret.call = "FetchPage" /\ bp_ret.ok
    /\ bp_ret.wrote # << >>
    /\ bp_ret.wrote[1] # bp_ret.page
    /\ pages_[bp_ret.frame].data_ = 1
    /\ pages_[bp_ret.frame].page_id_ = bp_ret.page

\* the state of the example: page f in frame f for every frame, page 0
\* unpinned and evictable, the others pinned, no page allocated beyond them
C14_Example ==
    /\ next_page_id_ = PoolSize
    /\ free_list_ = << >>
    /\ lru_list_ = <<0>>
    /\ \A f \in Frames : pages_[f].page_id_ = f
    /\ \A f \in Frames \ {0} : pages_[f].pin_count_ > 0

\* C14: NewPage fails exactly when the free list is empty and no frame is
\* evictable (every frame pinned), and then allocates no page id and changes
\* nothing; otherwise it takes the head of the free list, else the replacer's
\* victim, and returns the next page id in allocation order (0, 1, 2, ...), a
\* zeroed, clean frame pinned once; so after PoolSize NewPages and
\* Unpin(0, false) the next NewPage returns page id PoolSize in frame 0.
C14_NewPage ==
    [][ bp_ret'.call = "NewPage"
        => /\ bp_ret'.ok <=> ~ (free_list_ = << >> /\ lru_list_ = << >>)
           /\ ~ bp_ret'.ok
              => /\ \A f \in Frames : pages_[f].pin_count_ > 0
                 /\ UNCHANGED <<next_page_id_, page_table_, pages_, free_list_,
                                lru_list_, lru_hash_, disk>>
           /\ bp_ret'.ok
              => /\ bp_ret'.page = next_page_id_
                 /\ next_page_id_' = next_page_id_ + 1
                 /\ \A p \in DOMAIN page_table_ : p < bp_ret'.page
                 /\ bp_ret'.frame = IF free_list_ # << >> THEN Head(free_list_)
                                    ELSE lru_list_[Len(lru_list_)]
                 /\ free_list_' = IF free_list_ # << >> THEN Tail(free_list_)
                                  ELSE free_list_
                 /\ pages_'[bp_ret'.frame] =
                        [page_id_ |-> bp_ret'.page, pin_count_ |-> 1,
                         is_dirty_ |-> FALSE, data_ |-> 0]
                 /\ page_table_'[bp_ret'.page] = bp_ret'.frame
                 /\ bp_ret'.frame \notin lru_hash_'
           /\ C14_Example
              => ( bp_ret'.ok /\ bp_ret'.page = PoolSize /\ bp_ret'.frame = 0 ) ]_vars

\* the end of the example: page id PoolSize sits in frame 0, and the other
\* frames still hold the pinned pages 1 .. PoolSize - 1
C14_Witness ==
    /\ bp_ret.call = "NewPage" /\ bp_ret.ok
    /\ bp_ret.page = PoolSize /\ bp_ret.frame = 0
    /\ \A f \in Frames \ {0} : pages_[f].page_id_ = f /\ pages_[f].pin_count_ = 1
    /\ free_list_ = << >> /\ lru_list_ = << >>

\* C15: pin counting is balanced.  No pin_count is negative; UnpinPage fails
\* and changes nothing when the page is not resident or its pin_count is 0;
\* otherwise it succeeds, lowers that frame's pin_count by exactly 1, leaves
\* every other frame alone, and the frame is evictable after the call exactly
\* when its pin_count reached 0 (so k pins need k successful Unpins).
C15_PinBalance ==
    [][ /\ \A f \in Frames : pages_[f].pin_count_ >= 0 /\ pages_'[f].pin_count_ >= 0
        /\ bp_ret'.call = "UnpinPage"
           => LET p == bp_ret'.page
              IN  IF ~ Resident(p) \/ pages_[page_table_[p]].pin_count_ = 0
                  THEN /\ ~ bp_ret'.ok
                       /\ UNCHANGED <<pages_, page_table_, free_list_, lru_list_,
                                      lru_hash_, next_page_id_, disk>>
                  ELSE LET f == page_table_[p]
                       IN  /\ bp_ret'.ok
                           /\ bp_ret'.frame = f
                           /\ pages_'[f].pin_count_ = pages_[f].pin_count_ - 1
                           /\ pages_'[f].page_id_ = p
                           /\ pages_'[f].data_ = pages_[f].data_
                           /\ \A g \in Frames \ {f} : pages_'[g] = pages_[g]
                           /\ (pages_'[f].pin_count_ = 0) <=> (f \in lru_hash_')
                           /\ (pages_'[f].pin_count_ = 0) <=> Contains(lru_list_', f)
                           /\ f \notin lru_hash_
                           /\ UNCHANGED <<page_table_, free_list_, next_page_id_, disk>> ]_vars

\* a page pinned twice: the first Unpin has just succeeded and left it pinned
\* and not evictable
C15_Witness ==
    /\ bp_ret.call = "UnpinPage" /\ bp_ret.ok
    /\ pages_[bp_ret.frame].pin_count_ = MaxPin - 1
    /\ MaxPin > 1
    /\ bp_ret.frame \notin lru_hash_

\* C16 as stated: after NewPage, UnpinPage(id, true), DeletePage(id) the page
\* was written once, the page table has no entry for id and the freed frame
\* is at the head of the free list.
C16_FreedFrameAtHead ==
    ( /\ bp_ret.call = "DeletePage" /\ bp_ret.ok
      /\ bp_ret.frame \in Frames
      /\ bp_ret.wrote = <<bp_ret.page>> )
    => /\ ~ Resident(bp_ret.page)
       /\ Head(free_list_) = bp_ret.frame

\* C16, amended: DeletePage of a resident, unpinned page writes it exactly
\* once when it is dirty (not at all when clean), removes its page table
\* entry, resets the frame and appends the frame at the tail of the free list,
\* behind the frames that were already free.
C16_FreedFrameAtTail ==
    [][ ( /\ bp_ret'.call = "DeletePage"
          /\ Resident(bp_ret'.page)
          /\ pages_[page_table_[bp_ret'.page]].pin_count_ = 0 )
        => LET p == bp_ret'.page
               f == page_table_[p]
           IN  /\ bp_ret'.ok
               /\ bp_ret'.frame = f
               /\ bp_ret'.wrote = IF pages_[f].is_dirty_ THEN <<p>> ELSE << >>
               /\ pages_[f].is_dirty_ => disk'[p] = pages_[f].data_
               /\ ~ pages_[f].is_dirty_ => disk' = disk
               /\ p \notin DOMAIN page_table_'
               /\ free_list_' = Append(free_list_, f)
               /\ free_list_'[Len(free_list_')] = f
               /\ pages_'[f].page_id_ = INVALID_PAGE_ID
               /\ pages_'[f].pin_count_ = 0
               /\ ~ pages_'[f].is_dirty_
               /\ f \notin lru_hash_' ]_vars

\* NewPage, UnpinPage(0, true), DeletePage(0) while another frame is still
\* free: the freed frame is behind it
C16_Witness ==
    /\ bp_ret.call = "DeletePage" /\ bp_ret.ok
    /\ bp_ret.wrote = <<bp_ret.page>>
    /\ bp_ret.frame \in Frames
    /\ next_page_id_ = 1
    /\ Len(free_list_) = PoolSize
    /\ free_list_[Len(free_list_)] = bp_ret.frame
    /\ page_table_ = << >>

\* C17: DeletePage of a resident page with pin_count > 0 returns false and
\* has no effect: page table, frames, free list, replacer and disk are
\* unchanged and DeallocatePage is not invoked (it is invoked only on the
\* paths on which DeletePage returns true).
C17_PinnedDeleteNoEffect ==
    [][ ( /\ bp_ret'.call = "DeletePage"
          /\ Resident(bp_ret'.page)
          /\ pages_[page_table_[bp_ret'.page]].pin_count_ > 0 )
        => /\ ~ bp_ret'.ok
           /\ UNCHANGED <<pages_, page_table_, free_list_, lru_list_, lru_hash_,
                          next_page_id_, disk>>
           /\ ~ bp_ret'.dealloc ]_vars

\* C18: LRU order.  Victim on an empty replacer fails and changes nothing;
\* otherwise it returns and removes the frame that entered the evictable set
\* earliest among those evictable, keeping the order of the others.  Unpin of
\* a frame that is already evictable, and Pin of an absent frame, change
\* nothing.  The replacer never holds a frame twice nor more than max_size
\* frames, and its index names exactly the frames of its list.
C18_LRUOrder ==
    [][ /\ Len(lru_list_') <= PoolSize
        /\ \A i, j \in 1 .. Len(lru_list_') : i # j => lru_list_'[i] # lru_list_'[j]
        /\ lru_hash_' = { lru_list_'[i] : i \in 1 .. Len(lru_list_') }
        /\ bp_ret'.call = "Victim"
           => IF lru_list_ = << >>
              THEN ~ bp_ret'.ok /\ UNCHANGED <<lru_list_, lru_hash_>>
              ELSE /\ bp_ret'.ok
                   /\ bp_ret'.frame = Head(entered)
                   /\ lru_list_' = SelectSeq(lru_list_, LAMBDA x : x # Head(entered))
                   /\ Len(lru_list_') = Len(lru_list_) - 1
        /\ ( bp_ret'.call = "Unpin" /\ bp_ret'.frame \in lru_hash_ )
           => UNCHANGED <<lru_list_, lru_hash_>>
        /\ ( bp_ret'.call = "Unpin" /\ bp_ret'.frame \notin lru_hash_ )
           => IF Len(lru_list_) < PoolSize
              THEN /\ lru_hash_' = lru_hash_ \cup {bp_ret'.frame}
                   /\ SelectSeq(lru_list_', LAMBDA x : x # bp_ret'.frame) = lru_list_
              ELSE UNCHANGED <<lru_list_, lru_hash_>>
        /\ ( bp_ret'.call = "Pin" /\ bp_ret'.frame \notin lru_hash_ )
           => UNCHANGED <<lru_list_, lru_hash_>>
        /\ ( bp_ret'.call = "Pin" /\ bp_ret'.frame \in lru_hash_ )
           => /\ lru_list_' = SelectSeq(lru_list_, LAMBDA x : x # bp_ret'.frame)
              /\ lru_hash_' = lru_hash_ \ {bp_ret'.frame} ]_vars

\* Victim has just returned the earlier of two evictable frames and left the
\* later one in the replacer
C18_Witness ==
    /\ bp_ret.call = "Victim" /\ bp_ret.ok
    /\ Len(lru_list_) = PoolSize - 1
    /\ Len(entered) = PoolSize - 1
    /\ PoolSize > 1
    /\ bp_ret.frame \notin lru_hash_

\* the values GetValue owes for a key: those put in and not taken out
C19_Owed(k) == { v \in Values : <<k, v>> \in index_set }

\* the pairs held by the bucket pages
C19_Contents(bs) == { bs[p][i] : p \in DOMAIN bs, i \in BucketSlots } \ {NoPair}

\* the results of the calls of a step agree with the set of pairs
C19_Results ==
    /\ (ht_ret'.call = "GetValue" /\ ht_ret'.done)
           => ht_ret'.values = C19_Owed(ht_ret'.key)
    /\ (ht_ret'.call = "Insert" /\ ht_ret'.done /\ <<ht_ret'.key, ht_ret'.value>> \in index_set)
           => (~ ht_ret'.ok /\ C19_Contents(buckets') = C19_Contents(buckets))
    /\ (ht_ret'.call = "Remove" /\ ht_ret'.th \in Threads /\ ht_pc[ht_ret'.th] = "idle"
            /\ <<ht_ret'.key, ht_ret'.value>> \notin index_set)
           => (~ ht_ret'.ok /\ C19_Contents(buckets') = C19_Contents(buckets))

\* a call that has reached SplitInsert or Merge is not kept from returning by
\* calls that have already returned
C19_Returns ==
    \A th \in Threads : ht_pc[th] \in {"SplitInsert", "Merge"} => CanWLock(table_latch_)

\* C19: the hash index behaves like a set of (key, value) pairs: through any
\* sequence of Insert and Remove calls, those that reach SplitInsert and Merge
\* included, every call returns, GetValue(k) returns exactly the values put in
\* under k by an Insert that returned true and not taken out by a later Remove
\* that returned true, Insert of a present pair and Remove of an absent pair
\* return false and change nothing.
C19_SetOfPairs == [][C19_Results]_vars /\ []C19_Returns

C19_ResultsOnly == [][C19_Results]_vars

\* C20: after every completed Insert and Remove, with their splits and merges,
\* the directory is well formed: every active slot i has local depth at most
\* global_depth, every active slot that agrees with i on the low local-depth
\* bits has the same bucket page id and local depth, and every active slot
\* that differs in those bits points to another bucket.
C20_DirectoryWellFormed == DirWellFormed(directory)

\* a split has handed half of a bucket's slots to a new page, in a directory
\* of full depth that also holds a shallower bucket
C20_Witness ==
    /\ ht_ret.call = "SplitInsert"
    /\ directory.global_depth_ = MaxDepth
    /\ \E i, j \in Active(directory) :
          /\ directory.bucket_page_ids_[i] = next_page_id_ - 1
          /\ directory.local_depths_[i] = MaxDepth
          /\ directory.local_depths_[j] < MaxDepth

\* C21: grow then shrink: once every pair put in by Insert has been taken out
\* by Remove, the Remove that took out the last pair gets to return (its Merge
\* is not kept waiting by calls that have returned), and with no call in
\* progress global_depth is 0 again.
C21_GrowThenShrink ==
    index_set = {} =>
        /\ \A th \in Threads : ht_pc[th] = "Merge" => CanWLock(table_latch_)
        /\ (\A th \in Threads : ht_pc[th] = "idle") => directory.global_depth_ = 0

\* C22: an Insert that found its bucket full, at a local depth below
\* MAX_BUCKET_DEPTH, gets to split and return: its SplitInsert is not kept
\* waiting for the table latch by calls that have returned.
C22_FullBucketInsertReturns ==
    \A th \in Threads :
        (/\ ht_pc[th] = "SplitInsert"
         /\ directory.local_depths_[KeyToDirectoryIndex(ht_arg[th].key, directory)]
                < MAX_BUCKET_DEPTH)
            => CanWLock(table_latch_)

\* C23: table latch balance: every call releases each table latch acquisition
\* it made, so whenever no hash-table call is in progress the table latch has
\* no reader.
C23_TableLatchBalance ==
    (\A th \in Threads : ht_pc[th] = "idle") => table_latch_ = 0

\* the step changed the bytes of page p, a page that was there before the step
C25_Changed(p) ==
    IF p = directory_page_id_ THEN directory' # directory
    ELSE p \notin DOMAIN buckets' \/ buckets'[p] # buckets[p]

\* C25: dirty flag accuracy: each UnpinPage the hash table issues for a page
\* passes is_dirty = TRUE exactly when the call changed the bytes of that page
\* (FALSE, for example, when Insert rejects the pair or Remove finds none).
C25_DirtyFlagAccurate ==
    [][\A i \in DOMAIN ht_pool' :
          (/\ ht_pool'[i].call = "UnpinPage"
           /\ ht_pool'[i].page \in DOMAIN buckets \cup ({directory_page_id_} \ {INVALID_PAGE_ID}))
              => (ht_pool'[i].is_dirty <=> C25_Changed(ht_pool'[i].page))]_vars

C27_SplitBy(th) ==
    /\ ht_pc[th] = "SplitInsert"
    /\ ht_ret'.call = "SplitInsert"
    /\ ht_ret'.th = th

\* what a split leaves of the directory and of the bucket it splits; side(i, idx)
\* says whether slot i keeps the original page when idx is the split slot
C27_Rewrite(th, side(_, _)) ==
    LET idx == KeyToDirectoryIndex(ht_arg[th].key, directory)
        old_ld == directory.local_depths_[idx]
        new_ld == old_ld + 1
        original == directory.bucket_page_ids_[idx]
        image == next_page_id_
        partition == { i \in Active(directory') : LowBits(i, old_ld) = LowBits(idx, old_ld) }
        snapshot == { buckets[original][x] : x \in BucketSlots } \ {NoPair}
    IN  /\ \A i \in partition :
              /\ directory'.local_depths_[i] = new_ld
              /\ directory'.bucket_page_ids_[i] = IF side(i, idx) THEN original ELSE image
        /\ \A e \in snapshot :
              /\ KeyToPageId(e[1], directory') \in {original, image}
              /\ BucketHas(buckets'[KeyToPageId(e[1], directory')], e[1], e[2])
        /\ \A i \in Active(directory') \ partition :
              /\ directory'.bucket_page_ids_[i] =
                     directory.bucket_page_ids_[i % DirSize(directory)]
              /\ directory'.local_depths_[i] =
                     directory.local_depths_[i % DirSize(directory)]

C27_BitClear(i, idx) ==
    (i \div Pow2(directory.local_depths_[idx])) % 2 = 0

C27_BitAsSplitSlot(i, idx) ==
    (i \div Pow2(directory.local_depths_[idx])) % 2
        = (idx \div Pow2(directory.local_depths_[idx])) % 2

C26_GrantStep(t, r) ==
    /\ pc[t] \in {"latch", "wait"}
    /\ arg[t] = r
    /\ ret' = Return(t, op[t], r, "true")
    /\ op[t] \in {"LockShared", "LockExclusive"}

\* an older transaction that is not aborted waits in cv_.wait on r with a
\* request that is not granted and precedes the request granted to t
C26_Overtaken(t, r) ==
    \E i, j \in 1 .. Len(Queue(r)') :
        /\ i < j
        /\ Queue(r)'[j].txn_id_ = t
        /\ j > Len(Queue(r)) \/ ~ Queue(r)[j].granted_
        /\ Queue(r)'[i].txn_id_ < t
        /\ ~ Queue(r)'[i].granted_
        /\ txn_state'[Queue(r)'[i].txn_id_] # "ABORTED"
        /\ pc'[Queue(r)'[i].txn_id_] = "wait"
        /\ arg'[Queue(r)'[i].txn_id_] = r

\* C26: grants never overtake an older waiter: no lock request is granted
\* while a request of an older, non-aborted transaction that is still waiting
\* (not granted) precedes it in the queue of the same RID.
C26_NoOvertaking ==
    [][\A t \in Txns, r \in Rids : C26_GrantStep(t, r) => ~ C26_Overtaken(t, r)]_vars

\* C29: ABORTED is absorbing inside the lock manager: once the state of a
\* transaction is ABORTED, no step of LockShared, LockExclusive, LockUpgrade
\* or Unlock sets it back to GROWING or SHRINKING, and no lock call of that
\* transaction returns true afterwards.
C29_AbortedAbsorbing ==
    [][\A t \in Txns :
          txn_state[t] = "ABORTED" =>
              /\ txn_state'[t] = "ABORTED"
              /\ ~ (/\ ret'.txn = t
                    /\ ret'.op \in {"LockShared", "LockExclusive", "LockUpgrade"}
                    /\ ret'.val = "true")]_vars

\* the queue the next evaluation of NeedWait by the LockShared call of t sees:
\* at the latch the call appends its request first
C28_Queue(t) ==
    IF pc[t] = "latch"
    THEN Append(Queue(arg[t]), LockRequest(t, "SHARED"))
    ELSE Queue(arg[t])

C28_Pending(t) ==
    { j \in 1 .. Len(C28_Queue(t)) :
        /\ C28_Queue(t)[j].txn_id_ = t
        /\ C28_Queue(t)[j].lock_mode_ = "SHARED"
        /\ ~ C28_Queue(t)[j].granted_ }

\* the position of the request the LockShared call of t is waiting for
C28_Own(t) == CHOOSE j \in C28_Pending(t) : \A k \in C28_Pending(t) : k <= j

\* t is inside LockShared and its next step evaluates NeedWait: for the
\* first time at the latch, or again after cv_.wait returns
C28_Evaluating(t) ==
    /\ op[t] = "LockShared"
    /\ \/ pc[t] = "latch" /\ Len(Queue(arg[t])) < MaxQueue
       \/ pc[t] = "wait" /\ ~ CheckAbort(t)
    /\ C28_Pending(t) # {}

C28_HeadOwnOrShared(t) ==
    \/ C28_Queue(t)[1].txn_id_ = t
    \/ C28_Queue(t)[1].lock_mode_ = "SHARED"

C28_OlderExclusiveAhead(t) ==
    \E i \in 1 .. (C28_Own(t) - 1) :
        /\ C28_Queue(t)[i].txn_id_ < t
        /\ C28_Queue(t)[i].lock_mode_ = "EXCLUSIVE"

\* C28: shared requests wait only for older exclusive requests: at the first
\* evaluation and at every re-evaluation after a wake-up, a LockShared call is
\* granted when the head of the queue is its own request or a SHARED request,
\* and it stays blocked only while an EXCLUSIVE request of an older
\* transaction precedes its request, whatever was appended behind it.
C28_SharedWaitsForOlderExclusive ==
    \A t \in Txns :
        C28_Evaluating(t) =>
            /\ C28_HeadOwnOrShared(t) => ~ NeedWait(C28_Queue(t), t)
            /\ NeedWait(C28_Queue(t), t) => C28_OlderExclusiveAhead(t)

\* t is inside cv_.wait of a lock call, is not aborted, and evaluating the
\* loop condition on queue q sends it back to cv_.wait
C30_KeepsWaiting(t, q) ==
    /\ pc[t] = "wait"
    /\ ~ CheckAbort(t)
    /\ HasRequest(q, t)
    /\ MustWait(q, t, op[t])

\* the queue of rid r once every transaction outside D has released its locks
C30_Among(D, r) == SelectSeq(Queue(r), LAMBDA x : x.txn_id_ \in D)

\* every member of D is blocked, and stays blocked when all the transactions
\* outside D are gone: each waits for a lock held or requested by a member
C30_Deadlocked(D) ==
    \A t \in D : /\ C30_KeepsWaiting(t, Queue(arg[t]))
                 /\ C30_KeepsWaiting(t, C30_Among(D, arg[t]))

C30_OlderAhead(t) ==
    \E i, j \in 1 .. Len(Queue(arg[t])) :
        /\ i < j
        /\ Queue(arg[t])[j].txn_id_ = t
        /\ Queue(arg[t])[i].txn_id_ < t

====
